---- MODULE Spec2Model ----
(***************************************************************************)
(* A model of the asyncqlio Session (src/asyncqlio/orm/session.py) driving *)
(* an AiomysqlTransaction (src/asyncqlio/backends/mysql/aiomysql.py).      *)
(*                                                                         *)
(* Every Session method is an operator from a "world" record (the session, *)
(* its transaction, the pooled connection, the rows) and the outcomes of   *)
(* the driver calls it makes to a result [w |-> world, exc |-> exception]. *)
(* An action applies one method to the current world.                      *)
(*                                                                         *)
(* The katagawa Transaction base class (src/katagawa/engine/transaction.py)*)
(* is modelled beside it, with its own specification, and so are the index *)
(* transforms of the dialects (src/asyncqlio/backends/mysql/__init__.py,   *)
(* src/asyncqlio/backends/sqlite3/__init__.py) with the Index they build   *)
(* (src/asyncqlio/orm/schema/index.py).                                    *)
(***************************************************************************)
EXTENDS Integers, Sequences, FiniteSets, TLC

\* ------------------------------------------------------------------ bounds
MaxStarts == 2      \* transactions the connector hands out (start retries)
MaxStmts == 2       \* statements run inside one transaction
NRows == 2          \* TableRow objects the caller holds
MaxVal == 2         \* column values are 1..MaxVal
MaxBatch == 2       \* rows added to one insert/update/delete query
NTransactions == 2  \* katagawa Transaction objects
MaxHooks == 2       \* calls of one Transaction's _acquire hook
MaxCatalog == 3     \* catalog rows handed to one index transform

VARIABLES
    state,          \* Session._state
    transaction,    \* Session.transaction: "None", "Tx" or "Deleted" (del)
    txn,            \* number of transactions obtained from bind.get_transaction()
    conn,           \* AiomysqlTransaction.connection: "None" or "Held"
    inTx,           \* connection.begin() succeeded on the held connection
    acquired,       \* pool.acquire() calls that returned a connection
    released,       \* pool.release() calls
    terminated,     \* connection.close() calls (forced close)
    pending,        \* statements executed and neither committed nor rolled back
    tcalls,         \* transaction-level calls made by the last operation
    ccalls,         \* connection/pool-level calls made by the last operation
    raised,         \* exceptions the transaction's methods raised during it
    rows,           \* the caller's TableRow objects
    cursors,        \* result sets opened by the last operation, with their close counts
    results,        \* rows the last run_insert_query reported as inserted
    has_returns,    \* bind.dialect.has_returns
    scope,          \* the async-with block: "none", "body" or "exited"
    op,             \* name of the last operation invoked
    opArg,          \* its argument (checkpoint, or exception type given to __aexit__)
    opBatch,        \* the rows it was given
    opExc,          \* what it raised to the caller, "none" when it returned
    preState,       \* Session._state when the last operation was invoked
    opIn,           \* what the backend and the query builder handed the operation
    started,        \* katagawa Transaction.started, per transaction
    completed,      \* katagawa Transaction.completed, per transaction
    hooks,          \* calls of _acquire and _release, per transaction
    dialect,        \* the dialect whose index transform is applied
    catalog,        \* the raw catalog rows handed to it
    indexes,        \* what it yielded, and the exception that ended it
    ddl,            \* the text the last get_ddl_sql() returned
    original        \* the Index that text was generated from

vars == <<state, transaction, txn, conn, inTx, acquired, released, terminated,
          pending, tcalls, ccalls, raised, rows, cursors, results, has_returns,
          scope, op, opArg, opBatch,
          opExc, preState, opIn, started, completed, hooks,
          dialect, catalog, indexes, ddl, original>>

\* ------------------------------------------------------------ SessionState
NOT_READY == "NOT_READY"
READY == "READY"
CLOSED == "CLOSED"
SessionState == {NOT_READY, READY, CLOSED}

\* ------------------------------------------------------------------ worlds
\* failAt = k makes the k-th cursor.execute() of the operation raise err (0: none does)
WorldF(failAt, err) ==
    [state |-> state, transaction |-> transaction, txn |-> txn, conn |-> conn,
     inTx |-> inTx, acquired |-> acquired, released |-> released,
     terminated |-> terminated, pending |-> pending,
     tcalls |-> <<>>, ccalls |-> <<>>, raised |-> <<>>,
     rows |-> rows, cursors |-> <<>>,
     results |-> <<>>, n |-> 0, failAt |-> failAt, err |-> err,
     has_returns |-> has_returns]

World == WorldF(0, "none")

Ret(w, exc) == [w |-> w, exc |-> exc]

\* a method of the transaction raises exc
Raise(w, exc) == [w |-> [w EXCEPT !.raised = Append(@, exc)], exc |-> exc]

Call(m, a, r) == <<m, a, r>>

LogT(w, c) == [w EXCEPT !.tcalls = Append(@, c)]

LogC(w, c) == [w EXCEPT !.ccalls = Append(@, c)]

\* ------------------------------------------------------------ MysqlDialect
MysqlDialect_has_checkpoints == TRUE
MysqlDialect_has_returns == FALSE

\* ------------------------------------------------------ AiomysqlTransaction
BeginOutcomes == {"ok", "acquire_error", "begin_error"}
CallOutcomes == {"ok", "error"}

\* AiomysqlTransaction.begin: pool.acquire(), then connection.begin()
TxBegin(w, o) ==
    LET w0 == LogT(w, Call("begin", "", 0))
        w1 == LogC(w0, "pool.acquire")
        w2 == LogC([w1 EXCEPT !.conn = "Held", !.acquired = @ + 1], "conn.begin")
    IN  IF o = "acquire_error" THEN Raise(w1, "acquire_error")
        ELSE IF o = "begin_error" THEN Raise(w2, "begin_error")
        ELSE Ret([w2 EXCEPT !.inTx = TRUE], "none")

\* AiomysqlTransaction.commit: connection.commit()
TxCommit(w, o) ==
    LET w1 == LogC(LogT(w, Call("commit", "", 0)), "conn.commit")
    IN  IF o = "error" THEN Raise(w1, "commit_error")
        ELSE Ret([w1 EXCEPT !.pending = 0], "none")

\* AiomysqlTransaction.rollback: the checkpoint is ignored, connection.rollback()
TxRollback(w, checkpoint, o) ==
    LET w1 == LogC(LogT(w, Call("rollback", checkpoint, 0)), "conn.rollback")
    IN  IF o = "error" THEN Raise(w1, "rollback_error")
        ELSE Ret([w1 EXCEPT !.pending = 0], "none")

\* AiomysqlTransaction.close: connection.close() when has_error, then pool.release()
TxClose(w, has_error) ==
    LET w0 == LogT(w, Call("close", IF has_error THEN "has_error" ELSE "", 0))
        w1 == IF has_error
              THEN LogC([w0 EXCEPT !.terminated = @ + 1], "conn.close")
              ELSE w0
    IN  Ret(LogC([w1 EXCEPT !.released = @ + 1], "pool.release"), "none")

\* ----------------------------------------------------------------- Session
\* (mutant) the decorator turns away a session that was never started only
enforce_open_started(w) == w.state # NOT_READY

\* enforce_open: the wrapped method runs only when _state is READY
enforce_open(w) == w.state = READY

\* (mutant) start without its state check
Session_start_unguarded(w, o) ==
    LET w1 == [w EXCEPT !.transaction = "Tx", !.txn = @ + 1,
                        !.conn = "None", !.inTx = FALSE]
        r == TxBegin(w1, o)
    IN  IF r.exc # "none" THEN r
        ELSE Ret([r.w EXCEPT !.state = READY], "none")

\* Session.start
Session_start(w, o) ==
    IF w.state # NOT_READY THEN Ret(w, "RuntimeError")
    ELSE LET w1 == [w EXCEPT !.transaction = "Tx", !.txn = @ + 1,
                             !.conn = "None", !.inTx = FALSE]
             r == TxBegin(w1, o)
         IN  IF r.exc # "none" THEN r
             ELSE Ret([r.w EXCEPT !.state = READY], "none")

\* Session.commit
Session_commit(w, o) ==
    IF ~enforce_open(w) THEN Ret(w, "RuntimeError")
    ELSE TxCommit(w, o)

\* Session.rollback
Session_rollback(w, checkpoint, o) ==
    IF ~enforce_open(w) THEN Ret(w, "RuntimeError")
    ELSE TxRollback(w, checkpoint, o)

\* (mutant) close leaves the session ready to be started again
Session_close_reusable(w) ==
    IF ~enforce_open(w) THEN Ret(w, "RuntimeError")
    ELSE LET r == TxClose(w, FALSE)
         IN  Ret([r.w EXCEPT !.state = NOT_READY, !.transaction = "Deleted"], "none")

\* (mutant) close commits what is pending before it releases the transaction
Session_close_commits(w) ==
    IF ~enforce_open(w) THEN Ret(w, "RuntimeError")
    ELSE LET c == TxCommit(w, "ok")
             r == TxClose(c.w, FALSE)
         IN  Ret([r.w EXCEPT !.state = CLOSED, !.transaction = "Deleted"], "none")

\* Session.close
Session_close(w) ==
    IF ~enforce_open(w) THEN Ret(w, "RuntimeError")
    ELSE LET r == TxClose(w, FALSE)
         IN  Ret([r.w EXCEPT !.state = CLOSED, !.transaction = "Deleted"], "none")

\* ------------------------------------------- statements through the driver
DriverErrors == {"pymysql.IntegrityError", "pymysql.ProgrammingError",
                 "pymysql.InternalError", "pymysql.OperationalError"}

\* statements are <<kind, row>>; these kinds change data inside the transaction
Mutating == {"INSERT", "UPDATE", "DELETE", "SQL"}

Ran(w, sql) ==
    IF sql[1] \in Mutating THEN [w EXCEPT !.pending = @ + 1] ELSE w

\* the except clauses of AiomysqlTransaction.execute
ExecuteRaises(e) ==
    IF e = "pymysql.IntegrityError" THEN "IntegrityError"
    ELSE IF e \in {"pymysql.ProgrammingError", "pymysql.InternalError"}
         THEN "DatabaseException"
         ELSE e

\* AiomysqlTransaction.execute: cursor.execute() with the driver's errors
\* translated, and the driver cursor closed in the finally clause
TxExecute(w, sql) ==
    LET w1 == LogC(LogT([w EXCEPT !.n = @ + 1], Call("execute", sql[1], sql[2])),
                   "cursor.execute")
    IN  IF w1.n = w.failAt
        THEN Raise(LogC(w1, "cursor.close"), ExecuteRaises(w.err))
        ELSE Ret(LogC(Ran(w1, sql), "cursor.close"), "none")

\* AiomysqlTransaction.cursor: cursor.execute(), the cursor wrapped in a result set
TxCursor(w, sql) ==
    LET w1 == LogC(LogT([w EXCEPT !.n = @ + 1], Call("cursor", sql[1], sql[2])),
                   "cursor.execute")
    IN  IF w1.n = w.failAt
        THEN Raise(w1, w.err)
        ELSE Ret([Ran(w1, sql) EXCEPT !.cursors =
                      Append(@, [kind |-> sql[1], row |-> sql[2], closes |-> 0])],
                 "none")

\* AiomysqlResultSet.close on the i-th result set the operation opened
ResultSet_close(w, i) ==
    LogC([w EXCEPT !.cursors[i].closes = @ + 1], "cursor.close")

\* Session.execute
Session_execute(w, sql) ==
    IF ~enforce_open(w) THEN Ret(w, "RuntimeError")
    ELSE TxExecute(w, sql)

\* Session.cursor
Session_cursor(w, sql) ==
    IF ~enforce_open(w) THEN Ret(w, "RuntimeError")
    ELSE TxCursor(w, sql)

\* Session.fetch
Session_fetch(w, sql) ==
    IF ~enforce_open(w) THEN Ret(w, "RuntimeError")
    ELSE LET r == TxCursor(w, sql)
         IN  IF r.exc # "none" THEN r
             ELSE Ret(ResultSet_close(LogC(r.w, "cursor.fetchone"), Len(r.w.cursors)),
                      "none")

\* ------------------------------------------------------------ table and rows
NO_VALUE == 0
NO_DEFAULT == 0
DefaultName == 1

Rows == 1..NRows
Vals == 1..MaxVal

\* the table of the scenarios: users(id SERIAL PK, name TEXT DEFAULT .., note TEXT)
ColumnNames == <<"id", "name", "note">>
Cols == {ColumnNames[i] : i \in 1..Len(ColumnNames)}
auto_increment(c) == c = "id"
default(c) == IF c = "name" THEN DefaultName ELSE NO_DEFAULT

NewRow ==
    [values |-> [c \in Cols |-> NO_VALUE], previous |-> [c \in Cols |-> NO_VALUE],
     existed |-> FALSE, deleted |-> FALSE, aliased |-> FALSE]

\* TableRow.store_column_value: the current value is replaced; with track_history
\* the previous value stays behind as the baseline of the next diff, unless
\* _previous_values is the very dict _values is
store_column_value(row, c, v, track_history) ==
    [row EXCEPT !.values[c] = v,
                !.previous[c] = IF track_history /\ ~row.aliased THEN @ ELSE v]

StoreIn(w, r, c, v, track_history) ==
    [w EXCEPT !.rows[r] = store_column_value(@, c, v, track_history)]

\* the (sql, params) pairs of the query builders; Sentinel is (None, None)
Sentinel == <<"None", 0>>
ChangedCols(row) == {c \in Cols : row.values[c] # row.previous[c]}
InsertPair(w, r) == <<"INSERT", r>>
UpdatePair(w, r) == IF ChangedCols(w.rows[r]) = {} THEN Sentinel ELSE <<"UPDATE", r>>
DeletePair(w, r) == <<"DELETE", r>>

\* (mutant) the loop executes whatever pair it is given, the sentinel included
UpdateRow_executes_sentinel(w, r) ==
    IF w.rows[r].deleted THEN Ret(w, "RuntimeError")
    ELSE LET x == Session_execute(w, <<"UPDATE", r>>)
         IN  IF x.exc # "none" THEN x
             ELSE Ret([x.w EXCEPT !.rows[r].previous = x.w.rows[r].values,
                                  !.rows[r].aliased = TRUE], "none")

\* (mutant) the sentinel is tested before the deleted flag
UpdateRow_sentinel_first(w, r) ==
    IF UpdatePair(w, r) = Sentinel THEN Ret(w, "none")
    ELSE IF w.rows[r].deleted THEN Ret(w, "RuntimeError")
    ELSE LET x == Session_execute(w, UpdatePair(w, r))
         IN  IF x.exc # "none" THEN x
             ELSE Ret([x.w EXCEPT !.rows[r].previous = x.w.rows[r].values,
                                  !.rows[r].aliased = TRUE], "none")

\* ------------------------------------------------- Session.run_update_query
\* one iteration of the loop over zip(rows_to_update, generate_sql())
UpdateRow(w, r) ==
    IF w.rows[r].deleted THEN Ret(w, "RuntimeError")
    ELSE IF UpdatePair(w, r) = Sentinel THEN Ret(w, "none")
    ELSE LET x == Session_execute(w, UpdatePair(w, r))
         IN  IF x.exc # "none" THEN x
             ELSE Ret([x.w EXCEPT !.rows[r].previous = x.w.rows[r].values,
                                  !.rows[r].aliased = TRUE], "none")

RECURSIVE UpdateLoop(_, _, _)
UpdateLoop(w, batch, i) ==
    IF i > Len(batch) THEN Ret(w, "none")
    ELSE LET x == UpdateRow(w, batch[i])
         IN  IF x.exc # "none" THEN x ELSE UpdateLoop(x.w, batch, i + 1)

Session_run_update_query(w, batch) == UpdateLoop(w, batch, 1)

\* Session.update_now
Session_update_now(w, r) ==
    IF ~enforce_open(w) THEN Ret(w, "RuntimeError")
    ELSE Session_run_update_query(w, <<r>>)

\* Session.merge
Session_merge(w, r) == Session_update_now(w, r)

\* ------------------------------------------------- Session.run_insert_query
\* (mutant) the returned values are stored as changes of the caller
RECURSIVE StoreReturned_tracked(_, _, _, _, _)
StoreReturned_tracked(w, r, ret, k, cur) ==
    IF k > Len(ret) THEN w
    ELSE IF ret[k][1] \notin Cols THEN StoreReturned_tracked(w, r, ret, k + 1, cur)
    ELSE StoreReturned_tracked(
             ResultSet_close(StoreIn(w, r, ret[k][1], ret[k][2], TRUE), cur),
             r, ret, k + 1, cur)

\* (mutant) the default is stored whether or not the column has a value
RECURSIVE StoreDefaults_overwrites(_, _, _)
StoreDefaults_overwrites(w, r, k) ==
    IF k > Len(ColumnNames) THEN w
    ELSE LET c == ColumnNames[k]
         IN  IF default(c) # NO_DEFAULT
             THEN StoreDefaults_overwrites(StoreIn(w, r, c, default(c), TRUE), r, k + 1)
             ELSE StoreDefaults_overwrites(w, r, k + 1)

\* (mutant) no default is applied on the client
StoreDefaults_none(w, r, k) == w

\* the loop over returned_row.items() of the RETURNING branch: a column the
\* table does not know is skipped, a known one is stored and cur is closed
RECURSIVE StoreReturned(_, _, _, _, _)
StoreReturned(w, r, ret, k, cur) ==
    IF k > Len(ret) THEN w
    ELSE IF ret[k][1] \notin Cols THEN StoreReturned(w, r, ret, k + 1, cur)
    ELSE StoreReturned(ResultSet_close(StoreIn(w, r, ret[k][1], ret[k][2], FALSE), cur),
                       r, ret, k + 1, cur)

\* the loop applying the schema defaults to the columns that are still unset
RECURSIVE StoreDefaults(_, _, _)
StoreDefaults(w, r, k) ==
    IF k > Len(ColumnNames) THEN w
    ELSE LET c == ColumnNames[k]
         IN  IF default(c) # NO_DEFAULT /\ w.rows[r].values[c] = NO_VALUE
             THEN StoreDefaults(StoreIn(w, r, c, default(c), TRUE), r, k + 1)
             ELSE StoreDefaults(w, r, k + 1)

\* the last lines of an iteration: the flags are set and the row is reported
Inserted(w, r) ==
    [w EXCEPT !.rows[r].deleted = FALSE, !.rows[r].existed = TRUE,
              !.results = Append(@, r)]

\* (mutant) the branch without RETURNING never asks for the last value
InsertRow_no_lastval(w, r, lv, ret) ==
    IF w.rows[r].deleted THEN Ret(w, "RuntimeError")
    ELSE LET x == Session_cursor(w, InsertPair(w, r))
             cur == Len(x.w.cursors)
             w1 == LogC(x.w, "cursor.fetchone")
         IN  IF x.exc # "none" THEN x
             ELSE IF w.has_returns
             THEN Ret(Inserted(StoreReturned(w1, r, ret, 1, cur), r), "none")
             ELSE Ret(Inserted(ResultSet_close(StoreDefaults(w1, r, 1), cur), r), "none")

\* one iteration of the loop over zip(rows_to_insert, queries); lv is what the
\* last-value query returns, ret the row the INSERT returns
InsertRow(w, r, lv, ret) ==
    IF w.rows[r].deleted THEN Ret(w, "RuntimeError")
    ELSE LET x == Session_cursor(w, InsertPair(w, r))
             cur == Len(x.w.cursors)
             w1 == LogC(x.w, "cursor.fetchone")
         IN  IF x.exc # "none" THEN x
             ELSE IF w.has_returns
             THEN Ret(Inserted(StoreReturned(w1, r, ret, 1, cur), r), "none")
             ELSE IF Cardinality({c \in Cols : auto_increment(c)}) = 1
             THEN LET y == Session_cursor(w1, <<"SELECT", r>>)
                      w2 == ResultSet_close(LogC(y.w, "cursor.fetchone"),
                                            Len(y.w.cursors))
                      column == CHOOSE c \in Cols : auto_increment(c)
                      w3 == StoreIn(w2, r, column, lv, TRUE)
                  IN  IF y.exc # "none" THEN y
                      ELSE Ret(Inserted(ResultSet_close(StoreDefaults(w3, r, 1), cur), r),
                               "none")
             ELSE Ret(Inserted(ResultSet_close(StoreDefaults(w1, r, 1), cur), r), "none")

\* (mutant) the loop rolls the transaction back when a row fails
RECURSIVE InsertLoop_rolls_back(_, _, _, _, _)
InsertLoop_rolls_back(w, batch, i, lv, ret) ==
    IF i > Len(batch) THEN Ret(w, "none")
    ELSE LET x == InsertRow(w, batch[i], lv, ret)
         IN  IF x.exc # "none"
             THEN Ret(Session_rollback(x.w, "None", "ok").w, x.exc)
             ELSE InsertLoop_rolls_back(x.w, batch, i + 1, lv, ret)

RECURSIVE InsertLoop(_, _, _, _, _)
InsertLoop(w, batch, i, lv, ret) ==
    IF i > Len(batch) THEN Ret(w, "none")
    ELSE LET x == InsertRow(w, batch[i], lv, ret)
         IN  IF x.exc # "none" THEN x ELSE InsertLoop(x.w, batch, i + 1, lv, ret)

Session_run_insert_query(w, batch, lv, ret) == InsertLoop(w, batch, 1, lv, ret)

\* Session.insert_now
Session_insert_now(w, r, lv, ret) ==
    IF ~enforce_open(w) THEN Ret(w, "RuntimeError")
    ELSE Session_run_insert_query(w, <<r>>, lv, ret)

\* ------------------------------------------------- Session.run_delete_query
\* one iteration of the loop over zip(rows_to_delete, generate_sql()); pair
\* is the (sql, params) the generator yields for the row
\* (mutant) a delete that also forgets the row ever existed
DeleteRow_forgets(w, r, pair) ==
    IF w.rows[r].deleted THEN Ret(w, "RuntimeError")
    ELSE IF pair = Sentinel THEN Ret(w, "none")
    ELSE LET x == Session_execute(w, pair)
         IN  IF x.exc # "none" THEN x
             ELSE Ret([x.w EXCEPT !.rows[r].deleted = TRUE,
                                  !.rows[r].existed = FALSE], "none")

DeleteRow(w, r, pair) ==
    IF w.rows[r].deleted THEN Ret(w, "RuntimeError")
    ELSE IF pair = Sentinel THEN Ret(w, "none")
    ELSE LET x == Session_execute(w, pair)
         IN  IF x.exc # "none" THEN x
             ELSE Ret([x.w EXCEPT !.rows[r].deleted = TRUE], "none")

RECURSIVE DeleteLoop(_, _, _, _)
DeleteLoop(w, batch, pairs, i) ==
    IF i > Len(batch) THEN Ret(w, "none")
    ELSE LET x == DeleteRow(w, batch[i], pairs[i])
         IN  IF x.exc # "none" THEN x ELSE DeleteLoop(x.w, batch, pairs, i + 1)

Session_run_delete_query(w, batch, pairs) == DeleteLoop(w, batch, pairs, 1)

\* (mutant) add always takes the insert path
Session_add_inserts(w, r, lv, ret) == Session_insert_now(w, r, lv, ret)

\* Session.add
Session_add(w, r, lv, ret) ==
    IF w.rows[r].existed THEN Session_update_now(w, r)
    ELSE Session_insert_now(w, r, lv, ret)

\* (mutant) __aexit__ returns True: the exception of the body is swallowed
Session_aexit_suppresses(w, exc_type, o1, o2) ==
    LET first == IF exc_type = "None" THEN Session_commit(w, o1)
                 ELSE Session_rollback(w, "None", o1)
        handler == Session_rollback(first.w, "None", o2)
        inflight == IF first.exc = "none" THEN "none"
                    ELSE IF handler.exc # "none" THEN handler.exc
                    ELSE first.exc
        final == Session_close(IF first.exc = "none" THEN first.w ELSE handler.w)
    IN  IF final.exc # "none" THEN final
        ELSE Ret(final.w, inflight)

\* (mutant) the except clause re-raises without rolling back
Session_aexit_no_rollback(w, exc_type, o1, o2) ==
    LET first == IF exc_type = "None" THEN Session_commit(w, o1)
                 ELSE Session_rollback(w, "None", o1)
        final == Session_close(first.w)
    IN  IF final.exc # "none" THEN final
        ELSE IF first.exc # "none" THEN Ret(final.w, first.exc)
        ELSE Ret(final.w, IF exc_type = "None" THEN "none" ELSE exc_type)

\* (mutant) close() follows the try statement instead of sitting in a finally
Session_aexit_no_finally(w, exc_type, o1, o2) ==
    LET first == IF exc_type = "None" THEN Session_commit(w, o1)
                 ELSE Session_rollback(w, "None", o1)
        handler == Session_rollback(first.w, "None", o2)
        final == Session_close(first.w)
    IN  IF first.exc # "none"
        THEN Ret(handler.w, IF handler.exc # "none" THEN handler.exc ELSE first.exc)
        ELSE IF final.exc # "none" THEN final
        ELSE Ret(final.w, IF exc_type = "None" THEN "none" ELSE exc_type)

\* --------------------------------------------------------- Session.__aexit__
\* exc_type is "None" or the exception leaving the body; o1 and o2 are the
\* outcomes of the first and of the second transaction call
Session_aexit(w, exc_type, o1, o2) ==
    LET first == IF exc_type = "None" THEN Session_commit(w, o1)
                 ELSE Session_rollback(w, "None", o1)
        handler == Session_rollback(first.w, "None", o2)
        \* the exception in flight when the finally clause is entered
        inflight == IF first.exc = "none" THEN "none"
                    ELSE IF handler.exc # "none" THEN handler.exc
                    ELSE first.exc
        final == Session_close(IF first.exc = "none" THEN first.w ELSE handler.w)
    IN  IF final.exc # "none" THEN final
        ELSE IF inflight # "none" THEN Ret(final.w, inflight)
        ELSE Ret(final.w, IF exc_type = "None" THEN "none" ELSE exc_type)

\* ------------------------------------------- katagawa engine Transaction
Transactions == 1..NTransactions
\* what the backend's _acquire / _release hook does when it is run
HookOutcomes == {"ok", "error"}

\* the Transaction object t as one record
TransactionOf(t) ==
    [started |-> started[t], completed |-> completed[t], hooks |-> hooks[t]]

\* (mutant) acquire without the test of completed
Transaction_acquire_again(tx, o) ==
    [tx |-> [tx EXCEPT !.started = TRUE, !.hooks.acquire = @ + 1],
     exc |-> IF o = "error" THEN "hook_error" ELSE "none"]

\* Transaction.acquire: refused once completed; started is set, then _acquire() runs
Transaction_acquire(tx, o) ==
    IF tx.completed THEN [tx |-> tx, exc |-> "RuntimeError"]
    ELSE [tx |-> [tx EXCEPT !.started = TRUE, !.hooks.acquire = @ + 1],
          exc |-> IF o = "error" THEN "hook_error" ELSE "none"]

\* (mutant) release that marks the transaction completed after the hook returned
Transaction_release_after_hook(tx, o) ==
    IF ~tx.started THEN [tx |-> tx, exc |-> "RuntimeError"]
    ELSE IF tx.completed THEN [tx |-> tx, exc |-> "RuntimeError"]
    ELSE [tx |-> [tx EXCEPT !.completed = (o # "error"), !.hooks.release = @ + 1],
          exc |-> IF o = "error" THEN "hook_error" ELSE "none"]

\* Transaction.release: refused when never started or already completed;
\* completed is set, then _release() runs
Transaction_release(tx, o) ==
    IF ~tx.started THEN [tx |-> tx, exc |-> "RuntimeError"]
    ELSE IF tx.completed THEN [tx |-> tx, exc |-> "RuntimeError"]
    ELSE [tx |-> [tx EXCEPT !.completed = TRUE, !.hooks.release = @ + 1],
          exc |-> IF o = "error" THEN "hook_error" ELSE "none"]

\* ------------------------------------------------------------ schema.Index
\* catalog names; SQL text is the sequence of its tokens
IndexNames == {"ix_a", "ix_b"}
TableNames == {"t", "u"}
IndexCols == {"id", "name"}

\* Index.with_name: an Index of the given columns with name and table set
Index_with_name(name, columns, table_name, unique) ==
    [columns |-> columns, unique |-> unique, name |-> name,
     table_name |-> table_name, table |-> "None"]

\* Index.get_column_names: reflected indexes hold their columns as names
Index_get_column_names(idx) == idx.columns

\* ', '.join(names)
RECURSIVE Join(_)
Join(names) ==
    IF Len(names) <= 1 THEN names
    ELSE <<names[1], ",">> \o Join(Tail(names))

\* (mutant) DDL text that never says UNIQUE
Index_get_ddl_sql_never_unique(idx) ==
    <<"CREATE", "INDEX", idx.name, "ON", idx.table_name, "(">>
        \o Join(Index_get_column_names(idx)) \o <<")">>

\* Index.get_ddl_sql
Index_get_ddl_sql(idx) ==
    <<"CREATE">> \o (IF idx.unique THEN <<"UNIQUE">> ELSE <<>>)
        \o <<"INDEX", idx.name, "ON", idx.table_name, "(">>
        \o Join(Index_get_column_names(idx)) \o <<")">>

\* ------------------------------------ MysqlDialect.transform_rows_to_indexes
\* rows of information_schema.statistics
MysqlRows ==
    [INDEX_NAME : IndexNames, COLUMN_NAME : IndexCols, NON_UNIQUE : {0, 1},
     TABLE_NAME : TableNames]

\* itertools.groupby(rows, itemgetter('INDEX_NAME')): the length of the first
\* group, the run of rows at the head of the sequence that have one key
RECURSIVE RunLength(_)
RunLength(raw) ==
    IF Len(raw) <= 1 THEN Len(raw)
    ELSE IF raw[2].INDEX_NAME # raw[1].INDEX_NAME THEN 1
    ELSE 1 + RunLength(Tail(raw))

\* the groups, in order
RECURSIVE groupby(_)
groupby(raw) ==
    IF raw = <<>> THEN <<>>
    ELSE LET k == RunLength(raw)
         IN  <<SubSeq(raw, 1, k)>> \o groupby(SubSeq(raw, k + 1, Len(raw)))

\* the body of the loop over the groups: the columns of the group's rows;
\* unique and table are read off the last row of the group
MysqlIndexOf(group) ==
    LET row == group[Len(group)]
    IN  Index_with_name(group[1].INDEX_NAME,
                        [i \in DOMAIN group |-> group[i].COLUMN_NAME],
                        row.TABLE_NAME, row.NON_UNIQUE = 0)

MysqlDialect_transform_rows_to_indexes(raw) ==
    LET groups == groupby(raw)
    IN  [out |-> [g \in DOMAIN groups |-> MysqlIndexOf(groups[g])], exc |-> "none"]

\* the rows information_schema.statistics holds for the index a CREATE INDEX
\* statement has created: one per column, in the order of the statement
CreatedRows(text) ==
    LET unique == text[2] = "UNIQUE"
        at == IF unique THEN 3 ELSE 2
        cols == SelectSeq(SubSeq(text, at + 5, Len(text) - 1), LAMBDA t : t # ",")
    IN  [k \in DOMAIN cols |->
            [INDEX_NAME |-> text[at + 1], COLUMN_NAME |-> cols[k],
             NON_UNIQUE |-> IF unique THEN 0 ELSE 1, TABLE_NAME |-> text[at + 3]]]

\* ---------------------------------- Sqlite3Dialect.transform_rows_to_indexes
\* the sql column of sqlite_master: NULL, or a text
NoSql == [null |-> TRUE, text |-> <<>>]
Sql(text) == [null |-> FALSE, text |-> text]

\* find_col_expr.match(sql): re.match tries the pattern at the start of the
\* text only; the group is what lies between the "(" there and the last ")"
find_col_expr_match(text) ==
    LET closes == {j \in 2..Len(text) : text[j] = ")"}
    IN  IF text # <<>> /\ text[1] = "(" /\ closes # {}
        THEN [matched |-> TRUE,
              group |-> SubSeq(text, 2, (CHOOSE j \in closes :
                                            \A k \in closes : k <= j) - 1)]
        ELSE [matched |-> FALSE, group |-> <<>>]

\* the generator, row by row: a NULL sql is skipped; .groups() on the None
\* of a failed match is an AttributeError; past it, the module has no name
\* Index (it imports the module as md_index), a NameError
RECURSIVE SqliteLoop(_, _, _)
SqliteLoop(raw, i, out) ==
    IF i > Len(raw) THEN [out |-> out, exc |-> "none"]
    ELSE IF raw[i].sql.null THEN SqliteLoop(raw, i + 1, out)
    ELSE IF ~find_col_expr_match(raw[i].sql.text).matched
    THEN [out |-> out, exc |-> "AttributeError"]
    ELSE [out |-> out, exc |-> "NameError"]

Sqlite3Dialect_transform_rows_to_indexes(raw) == SqliteLoop(raw, 1, <<>>)

\* ----------------------------------------------------------------- actions
\* the inputs of the operations
Checkpoints == {"None", "sp1"}
BodyErrors == {"BodyError"}
Failures(k, errs) == {<<0, "none">>} \cup ((1..k) \X errs)
OneError == {"pymysql.OperationalError"}
Batches == {b \in UNION {[1..k -> Rows] : k \in 1..MaxBatch} :
                \A i, j \in DOMAIN b : i # j => b[i] # b[j]}
\* rows an INSERT .. RETURNING hands back, as (column name, value) items
ReturnedRows(lv) ==
    {<<>>, << <<"id", lv>> >>, << <<"id", lv>>, <<"name", DefaultName>> >>,
     << <<"oid", lv>>, <<"id", lv>> >>}

\* what the INSERT hands back: nothing without RETURNING
Returned(lv) == IF has_returns THEN ReturnedRows(lv) ELSE {<<>>}
\* the row insert_now, update_now, add and merge are given
OneRow == {CHOOSE r \in Rows : TRUE}
\* the pairs a delete query's generate_sql() may yield for the rows of b: the
\* session takes whatever it is handed, a DELETE or the (None, None) pair
DeletePairs(b) ==
    {ps \in [DOMAIN b -> {Sentinel} \cup {DeletePair(World, r) : r \in Rows}] :
        \A i \in DOMAIN b : ps[i] \in {Sentinel, DeletePair(World, b[i])}}
\* the columns the caller assigns; id is left to the backend
UserCols == {"name"}

\* the catalogs MySQL may hand the transform: in a catalog the rows of one
\* index of one table agree on NON_UNIQUE
MysqlCatalogs ==
    {c \in UNION {[1..k -> MysqlRows] : k \in 0..MaxCatalog} :
        \A i, j \in DOMAIN c :
            (c[i].INDEX_NAME = c[j].INDEX_NAME /\ c[i].TABLE_NAME = c[j].TABLE_NAME)
                => c[i].NON_UNIQUE = c[j].NON_UNIQUE}
\* what sqlite_master may hold as the sql of index n: NULL (an automatic
\* index), the statement that created it, a statement cut short, or a bare
\* parenthesised column list
SqliteTexts(n) ==
    {NoSql,
     Sql(Index_get_ddl_sql(Index_with_name(n, <<"id", "name">>, "t", FALSE))),
     Sql(<<"CREATE", "INDEX", n>>),
     Sql(<<"(", "id", ")">>)}
SqliteRows ==
    UNION {[name : {n}, tbl_name : {"t"}, sql : SqliteTexts(n)] : n \in IndexNames}
SqliteCatalogs == UNION {[1..k -> SqliteRows] : k \in 0..MaxCatalog}
\* the rows of another index that the catalog holds beside a created one
Others(name) ==
    {<<>>} \cup {<<r>> : r \in {x \in MysqlRows : x.INDEX_NAME # name}}

\* the variables of the index transforms
IndexVars == <<dialect, catalog, indexes, ddl, original>>

ApplyIn(r, name, arg, batch, in) ==
    /\ r.w.pending <= MaxStmts
    /\ state' = r.w.state
    /\ transaction' = r.w.transaction
    /\ txn' = r.w.txn
    /\ conn' = r.w.conn
    /\ inTx' = r.w.inTx
    /\ acquired' = r.w.acquired
    /\ released' = r.w.released
    /\ terminated' = r.w.terminated
    /\ pending' = r.w.pending
    /\ tcalls' = r.w.tcalls
    /\ ccalls' = r.w.ccalls
    /\ raised' = r.w.raised
    /\ rows' = r.w.rows
    /\ cursors' = r.w.cursors
    /\ results' = r.w.results
    /\ has_returns' = has_returns
    /\ op' = name
    /\ opArg' = arg
    /\ opBatch' = batch
    /\ opExc' = r.exc
    /\ preState' = state
    /\ opIn' = in
    /\ UNCHANGED <<started, completed, hooks>>
    /\ UNCHANGED IndexVars

Apply(r, name, arg, batch) == ApplyIn(r, name, arg, batch, <<>>)

\* no index has been reflected
NoIndex == Index_with_name("None", <<>>, "None", FALSE)
NoIndexes ==
    /\ dialect = "mysql"
    /\ catalog = <<>>
    /\ indexes = [out |-> <<>>, exc |-> "none"]
    /\ ddl = <<>>
    /\ original = NoIndex

\* no katagawa Transaction has been touched
NoTransactions ==
    /\ started = [t \in Transactions |-> FALSE]
    /\ completed = [t \in Transactions |-> FALSE]
    /\ hooks = [t \in Transactions |-> [acquire |-> 0, release |-> 0]]

\* the session as __init__ leaves it
NoSession ==
    /\ state = NOT_READY
    /\ transaction = "None"
    /\ txn = 0
    /\ conn = "None"
    /\ inTx = FALSE
    /\ acquired = 0
    /\ released = 0
    /\ terminated = 0
    /\ pending = 0
    /\ tcalls = <<>>
    /\ ccalls = <<>>
    /\ raised = <<>>
    /\ rows = [r \in Rows |-> NewRow]
    /\ cursors = <<>>
    /\ results = <<>>
    /\ has_returns = MysqlDialect_has_returns
    /\ scope = "none"
    /\ op = "init"
    /\ opArg = ""
    /\ opBatch = <<>>
    /\ opExc = "none"
    /\ preState = NOT_READY
    /\ opIn = <<>>

Init == NoSession /\ NoTransactions /\ NoIndexes

CanStart == state = NOT_READY => txn < MaxStarts

Start ==
    /\ CanStart
    /\ \E o \in BeginOutcomes : Apply(Session_start(World, o), "start", "", <<>>)
    /\ UNCHANGED scope

Commit ==
    /\ \E o \in CallOutcomes : Apply(Session_commit(World, o), "commit", "", <<>>)
    /\ UNCHANGED scope

Rollback ==
    /\ \E cp \in Checkpoints, o \in CallOutcomes :
          Apply(Session_rollback(World, cp, o), "rollback", cp, <<>>)
    /\ UNCHANGED scope

Close ==
    /\ Apply(Session_close(World), "close", "", <<>>)
    /\ UNCHANGED scope

Fetch ==
    /\ \E f \in Failures(1, DriverErrors) :
          ApplyIn(Session_fetch(WorldF(f[1], f[2]), <<"SELECT", 0>>),
                  "fetch", "", <<>>, f)
    /\ UNCHANGED scope

Execute ==
    /\ \E f \in Failures(1, DriverErrors) :
          ApplyIn(Session_execute(WorldF(f[1], f[2]), <<"SQL", 0>>),
                  "execute", "", <<>>, f)
    /\ UNCHANGED scope

Cursor ==
    /\ \E f \in Failures(1, DriverErrors) :
          ApplyIn(Session_cursor(WorldF(f[1], f[2]), <<"SQL", 0>>),
                  "cursor", "", <<>>, f)
    /\ UNCHANGED scope

InsertNow ==
    /\ \E r \in OneRow, f \in Failures(2, OneError), lv \in Vals :
       \E ret \in Returned(lv) :
          ApplyIn(Session_insert_now(WorldF(f[1], f[2]), r, lv, ret),
                  "insert_now", "", <<r>>, <<lv, ret>>)
    /\ UNCHANGED scope

UpdateNow ==
    /\ \E r \in OneRow, f \in Failures(1, OneError) :
          Apply(Session_update_now(WorldF(f[1], f[2]), r), "update_now", "", <<r>>)
    /\ UNCHANGED scope

Add ==
    /\ \E r \in OneRow, f \in Failures(2, OneError), lv \in Vals :
       \E ret \in Returned(lv) :
          Apply(Session_add(WorldF(f[1], f[2]), r, lv, ret), "add", "", <<r>>)
    /\ UNCHANGED scope

Merge ==
    /\ \E r \in OneRow, f \in Failures(1, OneError) :
          Apply(Session_merge(WorldF(f[1], f[2]), r), "merge", "", <<r>>)
    /\ UNCHANGED scope

RunInsertQuery ==
    /\ \E b \in Batches, f \in Failures(2 * MaxBatch, OneError), lv \in Vals :
       \E ret \in Returned(lv) :
          Apply(Session_run_insert_query(WorldF(f[1], f[2]), b, lv, ret),
                "run_insert_query", "", b)
    /\ UNCHANGED scope

RunUpdateQuery ==
    /\ \E b \in Batches, f \in Failures(MaxBatch, OneError) :
          Apply(Session_run_update_query(WorldF(f[1], f[2]), b), "run_update_query", "", b)
    /\ UNCHANGED scope

RunDeleteQuery ==
    /\ \E b \in Batches, f \in Failures(MaxBatch, OneError) :
       \E ps \in DeletePairs(b) :
          ApplyIn(Session_run_delete_query(WorldF(f[1], f[2]), b, ps),
                  "run_delete_query", "", b, ps)
    /\ UNCHANGED scope

\* the caller assigns a column of a row it holds
StoreValue ==
    /\ \E r \in Rows, c \in UserCols, v \in Vals :
          Apply(Ret(StoreIn(World, r, c, v, TRUE), "none"), "store_column_value", "", <<r>>)
    /\ UNCHANGED scope

\* async with session: __aenter__ is start(); the body runs only if it returned
AEnter ==
    /\ scope # "body"
    /\ CanStart
    /\ \E o \in BeginOutcomes :
          /\ Apply(Session_start(World, o), "__aenter__", "", <<>>)
          /\ scope' = IF Session_start(World, o).exc = "none" THEN "body" ELSE scope

\* the block is left, normally ("None") or by an exception of the body
AExit ==
    /\ scope = "body"
    /\ \E e \in {"None"} \cup BodyErrors, o1 \in CallOutcomes, o2 \in CallOutcomes :
          Apply(Session_aexit(World, e, o1, o2), "__aexit__", e, <<>>)
    /\ scope' = "exited"

\* the session through its life, plain and as an async-with block
Next ==
    \/ Start \/ Commit \/ Rollback \/ Close
    \/ Fetch \/ Execute \/ Cursor
    \/ InsertNow \/ UpdateNow \/ Add \/ Merge
    \/ AEnter \/ AExit

Spec == Init /\ [][Next]_vars

\* the row queries of a session that start() has made READY, in one
\* transaction of at most MaxStmts statements
Started ==
    /\ state = READY
    /\ transaction = "Tx"
    /\ txn = 1
    /\ conn = "Held"
    /\ inTx = TRUE
    /\ acquired = 1
    /\ released = 0
    /\ terminated = 0
    /\ pending = 0
    /\ tcalls = <<Call("begin", "", 0)>>
    /\ ccalls = <<"pool.acquire", "conn.begin">>
    /\ raised = <<>>
    /\ rows = [r \in Rows |-> NewRow]
    /\ cursors = <<>>
    /\ results = <<>>
    /\ scope = "none"
    /\ op = "start"
    /\ opArg = ""
    /\ opBatch = <<>>
    /\ opExc = "none"
    /\ preState = NOT_READY
    /\ opIn = <<>>
    /\ NoTransactions
    /\ NoIndexes

InitRows == Started /\ has_returns = MysqlDialect_has_returns

NextRows ==
    \/ RunInsertQuery \/ RunUpdateQuery \/ RunDeleteQuery
    \/ StoreValue

SpecRows == InitRows /\ [][NextRows]_vars

\* single inserts on a started session bound to either kind of dialect, one
\* with RETURNING and one without, the caller assigning columns in between
InitInsert == Started /\ has_returns \in BOOLEAN

NextInsert == InsertNow \/ StoreValue

SpecInsert == InitInsert /\ [][NextInsert]_vars

\* rows added to a started session and deleted from it, in any order, the
\* caller assigning columns in between
NextFlags == Add \/ RunDeleteQuery \/ StoreValue

SpecFlags == InitRows /\ [][NextFlags]_vars

\* the session variables of the steps that only touch a katagawa Transaction
SessionVars ==
    <<state, transaction, txn, conn, inTx, acquired, released, terminated,
      pending, tcalls, ccalls, raised, rows, cursors, results, has_returns,
      scope, opArg, preState, opIn>>

\* one call on Transaction t has returned or raised
ApplyTx(r, name, t) ==
    /\ r.tx.hooks.acquire <= MaxHooks
    /\ started' = [started EXCEPT ![t] = r.tx.started]
    /\ completed' = [completed EXCEPT ![t] = r.tx.completed]
    /\ hooks' = [hooks EXCEPT ![t] = r.tx.hooks]
    /\ op' = name
    /\ opBatch' = <<t>>
    /\ opExc' = r.exc
    /\ UNCHANGED SessionVars
    /\ UNCHANGED IndexVars

Acquire ==
    \E t \in Transactions, o \in HookOutcomes :
        ApplyTx(Transaction_acquire(TransactionOf(t), o), "acquire", t)

Release ==
    \E t \in Transactions, o \in HookOutcomes :
        ApplyTx(Transaction_release(TransactionOf(t), o), "release", t)

NextTx == Acquire \/ Release

\* the katagawa Transactions of an engine, acquired and released in any order
SpecTx == Init /\ [][NextTx]_vars

\* one step of schema reflection has returned or raised
ApplyIx(name, c, r, text, idx) ==
    /\ op' = name
    /\ opExc' = r.exc
    /\ dialect' = dialect
    /\ catalog' = c
    /\ indexes' = r
    /\ ddl' = text
    /\ original' = idx
    /\ UNCHANGED <<SessionVars, opBatch, started, completed, hooks>>

\* list(dialect.transform_rows_to_indexes(*catalog)) on the rows read
MysqlTransform ==
    /\ op = "init" /\ dialect = "mysql"
    /\ ApplyIx("transform_rows_to_indexes", catalog,
               MysqlDialect_transform_rows_to_indexes(catalog), ddl, original)

SqliteTransform ==
    /\ op = "init" /\ dialect = "sqlite3"
    /\ ApplyIx("transform_rows_to_indexes", catalog,
               Sqlite3Dialect_transform_rows_to_indexes(catalog), ddl, original)

\* get_ddl_sql() of one of the reflected indexes
GetDdlSql ==
    \E i \in DOMAIN indexes.out :
        ApplyIx("get_ddl_sql", catalog, indexes,
                Index_get_ddl_sql(indexes.out[i]), indexes.out[i])

\* the statement is executed on a MySQL database that has no index of that
\* name, and the indexes are reflected again
CreateIndex ==
    /\ op = "get_ddl_sql" /\ dialect = "mysql"
    /\ \E pre \in Others(original.name) :
          LET c == pre \o CreatedRows(ddl)
          IN  ApplyIx("create_index", c,
                      MysqlDialect_transform_rows_to_indexes(c), ddl, original)

\* reflection of the indexes of a database, of either dialect, and the
\* re-creation of a reflected index from its DDL text
InitIndex ==
    /\ NoSession /\ NoTransactions
    /\ dialect \in {"mysql", "sqlite3"}
    /\ catalog \in IF dialect = "mysql" THEN MysqlCatalogs ELSE SqliteCatalogs
    /\ indexes = [out |-> <<>>, exc |-> "none"]
    /\ ddl = <<>>
    /\ original = NoIndex

NextIndex == MysqlTransform \/ SqliteTransform \/ GetDdlSql \/ CreateIndex

SpecIndex == InitIndex /\ [][NextIndex]_vars

\* ------------------------------------------------------------------ claims
Range(q) == {q[i] : i \in DOMAIN q}
CM == Call("commit", "", 0)
RB == Call("rollback", "None", 0)
CL == Call("close", "", 0)
GuardedOps == {"commit", "rollback", "close", "fetch", "execute", "cursor",
               "insert_now", "update_now", "add", "merge"}
Starts == {"start", "__aenter__"}

\* C1: on a session that is NOT_READY or CLOSED, commit, rollback, close, fetch,
\* execute, cursor, insert_now, update_now, add and merge each raise the state
\* error; the transaction is not called and the state stays what it was.
C1_GuardedFailOutsideReady ==
    (op \in GuardedOps /\ preState # READY)
        => (opExc = "RuntimeError" /\ tcalls = <<>> /\ state = preState)

C1_Witness == op = "add" /\ preState = CLOSED /\ opExc = "RuntimeError"

\* C2: the state changes only from NOT_READY to READY, in a start that returns,
\* and from READY to CLOSED, in a close that went through (alone or as the last
\* step of __aexit__); no other step changes it, so CLOSED is never left.
C2_StateMoves ==
    [][state' # state =>
          \/ /\ state = NOT_READY /\ state' = READY
             /\ op' \in Starts /\ opExc' = "none"
          \/ /\ state = READY /\ state' = CLOSED
             /\ \/ op' = "close" /\ opExc' = "none"
                \/ op' = "__aexit__" /\ CL \in Range(tcalls')]_vars

C2_Witness == op = "close" /\ preState = READY /\ state = CLOSED /\ txn = 1

\* C3: a start that returns was called on a NOT_READY session, obtained one
\* transaction, began it and made the session READY; a start whose begin raises
\* leaves it NOT_READY; a start on a READY or CLOSED session raises the state
\* error and neither obtains nor begins a transaction.
C3_Start ==
    [][op' \in Starts =>
          /\ state # NOT_READY =>
                 /\ opExc' = "RuntimeError" /\ tcalls' = <<>>
                 /\ txn' = txn /\ acquired' = acquired /\ state' = state
          /\ opExc' = "none" =>
                 /\ state = NOT_READY /\ state' = READY
                 /\ txn' = txn + 1 /\ tcalls' = <<Call("begin", "", 0)>> /\ inTx'
          /\ (state = NOT_READY /\ opExc' # "none") => state' = NOT_READY]_vars

C3_Witness == op = "start" /\ preState = READY /\ opExc = "RuntimeError" /\ txn = 1

\* C4: close on a READY session calls the transaction's close and nothing else,
\* commit in particular, makes the session CLOSED, and leaves the statements
\* that were pending as uncommitted as they were.
C4_CloseDoesNotCommit ==
    [][(op' = "close" /\ state = READY) =>
          /\ opExc' = "none" /\ state' = CLOSED
          /\ tcalls' = <<CL>> /\ released' = released + 1
          /\ pending' = pending]_vars

C4_Witness == op = "close" /\ opExc = "none" /\ state = CLOSED /\ pending > 0

\* C5 as claimed: whenever an exception leaves the body of a session that is
\* still READY, the exit calls rollback, then close, and the caller gets the
\* exception of the body.
C5_Claimed ==
    (op = "__aexit__" /\ opArg \in BodyErrors /\ preState = READY)
        => (tcalls = <<RB, CL>> /\ opExc = opArg)

\* C5 as amended: when an exception leaves the body of a session that is still
\* READY, the exit calls rollback first and close last and never commit; if
\* the rollback returns, the caller gets the exception of the body; if it
\* raises, rollback is called a second time before close and the caller gets
\* the rollback's error instead.
C5_ErrorExit ==
    (op = "__aexit__" /\ opArg \in BodyErrors /\ preState = READY)
        => /\ CM \notin Range(tcalls)
           /\ raised = <<>> => (tcalls = <<RB, CL>> /\ opExc = opArg)
           /\ raised # <<>> =>
                  /\ tcalls = <<RB, RB, CL>> /\ opExc = "rollback_error"
                  /\ Range(raised) = {"rollback_error"}

C5_Witness ==
    /\ op = "__aexit__" /\ opArg = "BodyError" /\ preState = READY
    /\ tcalls = <<RB, CL>> /\ opExc = "BodyError"

\* C6 as claimed: whenever the body of a session that is still READY ends
\* normally, the exit calls commit, then close; if the commit raised it calls
\* rollback in between and the caller gets the commit's error.
C6_Claimed ==
    (op = "__aexit__" /\ opArg = "None" /\ preState = READY)
        => \/ tcalls = <<CM, CL>> /\ opExc = "none"
           \/ tcalls = <<CM, RB, CL>> /\ opExc = "commit_error"

\* C6 as amended: when the body of a session that is still READY ends normally,
\* the exit calls commit, then close; if the commit raises it calls rollback in
\* between, and the caller gets the commit's error if that rollback returns and
\* the rollback's error if it raises too.
C6_NormalExit ==
    (op = "__aexit__" /\ opArg = "None" /\ preState = READY)
        => \/ raised = <<>> /\ tcalls = <<CM, CL>> /\ opExc = "none"
           \/ /\ raised = <<"commit_error">>
              /\ tcalls = <<CM, RB, CL>> /\ opExc = "commit_error"
           \/ /\ raised = <<"commit_error", "rollback_error">>
              /\ tcalls = <<CM, RB, CL>> /\ opExc = "rollback_error"

C6_Witness ==
    /\ op = "__aexit__" /\ opArg = "None" /\ preState = READY
    /\ raised = <<"commit_error">> /\ opExc = "commit_error"
    /\ tcalls = <<CM, RB, CL>>

\* C7: once the block of a started session has been left, whatever the commit
\* and the rollbacks of the exit did, the transaction has been released once
\* and the session is CLOSED; an exit that finds the session READY ends with
\* the transaction's close.
C7_ReleasedOnEveryExit ==
    /\ scope = "exited" => (state = CLOSED /\ released = 1 /\ transaction = "Deleted")
    /\ (op = "__aexit__" /\ preState = READY)
           => (tcalls # <<>> /\ tcalls[Len(tcalls)] = CL)

C7_Witness ==
    /\ op = "__aexit__" /\ opArg = "BodyError"
    /\ raised = <<"rollback_error", "rollback_error">>
    /\ state = CLOSED /\ released = 1

\* C8 as claimed: an exit that raises releases the transaction on the forced
\* path, the transaction's close being called with has_error set and the
\* connection terminated before the pool gets it back.
C8_Claimed ==
    (op = "__aexit__" /\ preState = READY /\ opExc # "none")
        => (Call("close", "has_error", 0) \in Range(tcalls) /\ terminated > 0)

\* C9 as claimed: a rollback given a checkpoint rolls back to that checkpoint
\* if the dialect has checkpoints, and does a plain rollback if it has not.
C9_Claimed ==
    (op = "rollback" /\ preState = READY /\ opArg # "None")
        => IF MysqlDialect_has_checkpoints
           THEN ccalls = <<"conn.rollback_to">>
           ELSE ccalls = <<"conn.rollback">>

\* C10: run_update_query issues no statement for a row of the query whose pair
\* is the sentinel and leaves that row as it was; when it returns, the UPDATE
\* of every other row of the query has been executed.
C10_SentinelSkipped ==
    [][op' = "run_update_query" =>
          \A i \in DOMAIN opBatch' :
              LET r == opBatch'[i]
              IN  /\ UpdatePair(World, r) = Sentinel =>
                         /\ rows'[r] = rows[r]
                         /\ \A k \in DOMAIN tcalls' : tcalls'[k][3] # r
                  /\ (UpdatePair(World, r) # Sentinel /\ opExc' = "none") =>
                         Call("execute", "UPDATE", r) \in Range(tcalls')]_vars

C10_Witness ==
    /\ op = "run_update_query" /\ opExc = "none"
    /\ Len(opBatch) = 2 /\ Len(tcalls) = 1

\* C19: once a Transaction is completed (released) it stays completed, and
\* every acquire and every release on it raises RuntimeError without running
\* _acquire or _release; so does a release on a Transaction never started.
C19_ReleasedIsTerminal ==
    [][op' \in {"acquire", "release"} =>
          LET t == opBatch'[1]
          IN  /\ completed[t] => completed'[t]
              /\ (completed[t] \/ (op' = "release" /\ ~started[t])) =>
                     /\ opExc' = "RuntimeError"
                     /\ hooks' = hooks
                     /\ started' = started /\ completed' = completed]_vars

C19_Witness ==
    /\ op = "acquire" /\ opExc = "RuntimeError"
    /\ completed[opBatch[1]] /\ hooks[opBatch[1]].release = 1

\* C20 as claimed: acquire on a Transaction that is started and not completed
\* raises and does not run _acquire again.
C20_Claimed ==
    [][(op' = "acquire" /\ started[opBatch'[1]] /\ ~completed[opBatch'[1]]) =>
          /\ opExc' = "RuntimeError"
          /\ hooks'[opBatch'[1]].acquire = hooks[opBatch'[1]].acquire]_vars

\* the calls the last operation made on the transaction for row r
CallsFor(calls, r) == {k \in DOMAIN calls : calls[k][3] = r}

\* C11 as claimed: a run_delete_query that returns has executed exactly one
\* statement for every row of the query and has marked every one deleted,
\* whatever pair the generator yielded for it.
C11_Claimed ==
    [][(op' = "run_delete_query" /\ opExc' = "none") =>
          \A i \in DOMAIN opBatch' :
              /\ Cardinality(CallsFor(tcalls', opBatch'[i])) = 1
              /\ rows'[opBatch'[i]].deleted]_vars

RowQueries == {"run_insert_query", "run_update_query", "run_delete_query"}

\* C12: an insert, update or delete query holding a row that is marked deleted
\* raises; no statement is issued for that row and the row stays as it was;
\* unless the backend failed on an earlier row of the query, what is raised is
\* the RuntimeError of the deleted row, also for an update without changes.
C12_DeletedRowRefused ==
    [][op' \in RowQueries =>
          \A i \in DOMAIN opBatch' :
              LET r == opBatch'[i]
              IN  rows[r].deleted =>
                      /\ opExc' # "none"
                      /\ CallsFor(tcalls', r) = {}
                      /\ rows'[r] = rows[r]
                      /\ raised' = <<>> => opExc' = "RuntimeError"]_vars

C12_Witness ==
    /\ op = "run_update_query" /\ opExc = "RuntimeError" /\ tcalls = <<>>
    /\ rows[opBatch[1]].deleted /\ ChangedCols(rows[opBatch[1]]) = {}

AutoColumn == CHOOSE c \in Cols : auto_increment(c)

\* C13: without RETURNING, an insert_now that returns has run the INSERT and
\* then one last-value query, the auto-increment column of the row holds the
\* value that query returned, and the row has existed set and deleted clear.
C13_LastValueFallback ==
    [][(op' = "insert_now" /\ opExc' = "none" /\ ~has_returns) =>
          LET r == opBatch'[1]
          IN  /\ tcalls' = <<Call("cursor", "INSERT", r), Call("cursor", "SELECT", r)>>
              /\ rows'[r].values[AutoColumn] = opIn'[1]
              /\ rows'[r].existed /\ ~rows'[r].deleted]_vars

C13_Witness ==
    /\ op = "insert_now" /\ opExc = "none" /\ ~has_returns
    /\ rows[opBatch[1]].values["id"] = opIn[1] /\ rows[opBatch[1]].existed

\* C14: without RETURNING, after an insert_now that returns, every column but
\* the one the last-value query fills holds its schema default if it was unset
\* and has one, and otherwise what it held before: a value stays, and an unset
\* column without default stays unset.
C14_ClientDefaults ==
    [][(op' = "insert_now" /\ opExc' = "none" /\ ~has_returns) =>
          LET r == opBatch'[1]
          IN  \A c \in Cols \ {AutoColumn} :
                  rows'[r].values[c] =
                      IF rows[r].values[c] = NO_VALUE /\ default(c) # NO_DEFAULT
                      THEN default(c)
                      ELSE rows[r].values[c]]_vars

C14_Witness ==
    /\ op = "insert_now" /\ opExc = "none" /\ ~has_returns
    /\ rows[opBatch[1]].values["name"] # DefaultName
    /\ rows[opBatch[1]].values["note"] = NO_VALUE

\* the items of a returned row that name a column of the table
Known(ret) == {i \in DOMAIN ret : ret[i][1] \in Cols}

\* C15: with RETURNING, after an insert_now that returns, every column of the
\* returned row holds the returned value as current and as previous value (no
\* change is recorded), the other columns are as they were, no last-value
\* query was made, and the row has existed set and deleted clear.
C15_ReturnedStored ==
    [][(op' = "insert_now" /\ opExc' = "none" /\ has_returns) =>
          LET r == opBatch'[1]
              ret == opIn'[2]
          IN  /\ \A i \in Known(ret) :
                     /\ rows'[r].values[ret[i][1]] = ret[i][2]
                     /\ rows'[r].previous[ret[i][1]] = ret[i][2]
              /\ \A c \in Cols \ {ret[i][1] : i \in Known(ret)} :
                     /\ rows'[r].values[c] = rows[r].values[c]
                     /\ rows'[r].previous[c] = rows[r].previous[c]
              /\ tcalls' = <<Call("cursor", "INSERT", r)>>
              /\ rows'[r].existed /\ ~rows'[r].deleted]_vars

C15_Witness ==
    /\ op = "insert_now" /\ opExc = "none" /\ has_returns
    /\ Len(opIn[2]) = 2 /\ opIn[2][2][1] = "name"
    /\ ChangedCols(rows[opBatch[1]]) = {} /\ rows[opBatch[1]].existed

\* the columns the client-side defaulting would fill in a row
Defaulted(row) == {c \in Cols : default(c) # NO_DEFAULT /\ row.values[c] = NO_VALUE}
HasKey(ret, lv) == \E i \in DOMAIN ret : ret[i] = <<AutoColumn, lv>>
HasDefaults(ret, row) ==
    \A c \in Defaulted(row) : \E i \in DOMAIN ret : ret[i] = <<c, default(c)>>
\* the same insert on the other kind of dialect: the last-value query giving
\* lv and no returned row, or the returned row ret
Twin(r, lv, ret) ==
    Session_insert_now([World EXCEPT !.has_returns = ~has_returns], r, lv, ret).w.rows[r]
Parity(a, b, cols) ==
    /\ a.values[AutoColumn] = b.values[AutoColumn]
    /\ \A c \in cols : a.values[c] = b.values[c]
\* the returned rows to compare an insert with: its own on a RETURNING
\* dialect, every one the other dialect could hand back otherwise
Compared(lv, ret) == IF has_returns THEN {ret} ELSE ReturnedRows(lv)

\* C16 as claimed: an insert_now that returns leaves the row with the key and
\* the defaulted columns that the same insert leaves on the other kind of
\* dialect, whenever the returned row carries the key the last-value query
\* gives.
C16_Claimed ==
    [][(op' = "insert_now" /\ opExc' = "none") =>
          LET r == opBatch'[1]
              lv == opIn'[1]
          IN  \A ret \in Compared(lv, opIn'[2]) :
                  HasKey(ret, lv) =>
                      Parity(rows'[r], Twin(r, lv, IF has_returns THEN <<>> ELSE ret),
                             Defaulted(rows[r]))]_vars

\* C16 as amended: the same, for returned rows that also carry every defaulted
\* column with its schema default; the key alone agrees for every returned row
\* carrying it.
C16_Parity ==
    [][(op' = "insert_now" /\ opExc' = "none") =>
          LET r == opBatch'[1]
              lv == opIn'[1]
          IN  \A ret \in Compared(lv, opIn'[2]) :
                  LET twin == Twin(r, lv, IF has_returns THEN <<>> ELSE ret)
                  IN  HasKey(ret, lv) =>
                          /\ Parity(rows'[r], twin, {})
                          /\ HasDefaults(ret, rows[r]) =>
                                 Parity(rows'[r], twin, Defaulted(rows[r]))]_vars

C16_Witness ==
    /\ op = "insert_now" /\ opExc = "none" /\ has_returns
    /\ HasKey(opIn[2], opIn[1]) /\ Len(opIn[2]) = 2
    /\ rows[opBatch[1]].values["name"] = DefaultName
    /\ rows[opBatch[1]].previous["name"] = DefaultName

\* C17: on a READY session, add of a row whose existed flag is set runs the
\* update path (one UPDATE, or nothing when the pair is the sentinel) and never
\* an INSERT; add of a row whose flag is clear runs the insert path, the INSERT
\* first, and leaves the flag set when it returns, so that the next add of the
\* row updates.
C17_AddDispatch ==
    [][(op' = "add" /\ state = READY) =>
          LET r == opBatch'[1]
          IN  IF rows[r].existed
              THEN tcalls' = IF UpdatePair(World, r) = Sentinel THEN <<>>
                             ELSE <<Call("execute", "UPDATE", r)>>
              ELSE /\ tcalls' # <<>>
                   /\ tcalls'[1] = Call("cursor", "INSERT", r)
                   /\ opExc' = "none" => rows'[r].existed]_vars

C17_Witness ==
    /\ op = "add" /\ opExc = "none"
    /\ tcalls = <<Call("execute", "UPDATE", opBatch[1])>>

\* the position in the query of the row whose statement failed: the last call
\* the operation made
FailedAt(batch, calls) ==
    CHOOSE i \in DOMAIN batch : batch[i] = calls[Len(calls)][3]

\* row r, before the failing one, is as its statement left it
Reconciled(name, i, r) ==
    IF name = "run_insert_query" THEN rows'[r].existed /\ ~rows'[r].deleted
    ELSE IF name = "run_update_query"
    THEN IF UpdatePair(World, r) = Sentinel THEN rows'[r] = rows[r]
         ELSE rows'[r].previous = rows'[r].values
    ELSE IF opIn'[i] = Sentinel THEN rows'[r] = rows[r]
         ELSE rows'[r].deleted

\* C18: when a backend call of a row query raises, the caller gets that very
\* error; the failing statement was issued once and is the last call made, no
\* rollback or commit among the calls; the rows before the failing one are
\* reconciled, the failing row and the rows after it are as they were, and
\* no statement was issued for the rows after it.
C18_PartialFailure ==
    [][(op' \in RowQueries /\ raised' # <<>>) =>
          LET b == opBatch'
              k == FailedAt(b, tcalls')
          IN  /\ Len(raised') = 1 /\ opExc' = raised'[1]
              /\ \A j \in DOMAIN tcalls' : tcalls'[j][1] \in {"cursor", "execute"}
              /\ Cardinality({j \in DOMAIN tcalls' :
                                  tcalls'[j] = tcalls'[Len(tcalls')]}) = 1
              /\ \A i \in DOMAIN b :
                     /\ i < k => Reconciled(op', i, b[i])
                     /\ i >= k => rows'[b[i]] = rows[b[i]]
                     /\ i > k => CallsFor(tcalls', b[i]) = {}]_vars

C18_Witness ==
    /\ op = "run_insert_query" /\ raised # <<>> /\ opExc = raised[1]
    /\ Len(opBatch) = 2 /\ Len(tcalls) = 3
    /\ rows[opBatch[1]].existed /\ ~rows[opBatch[2]].existed

\* C21 as claimed: when the driver fails a statement of a READY session, on
\* the execute path or on the cursor path, the caller gets IntegrityError if
\* the driver reported an integrity error and DatabaseException otherwise.
C21_Claimed ==
    (op \in {"execute", "cursor", "fetch"} /\ preState = READY /\ opIn[1] = 1)
        => opExc = IF opIn[2] = "pymysql.IntegrityError" THEN "IntegrityError"
                   ELSE "DatabaseException"

\* C22 as claimed: once the session is CLOSED, as many connections have been
\* released to the pool as were acquired from it.
C22_Claimed == state = CLOSED => acquired = released

\* C29: on every Transaction completed implies started and no step resets
\* either flag; an acquire whose _acquire raised leaves started true, a
\* release whose _release raised leaves completed true, and a release of a
\* completed Transaction is refused, so the failed release cannot be retried.
C29_FlagsMonotonic ==
    [][/\ \A t \in Transactions :
            /\ started[t] => started'[t]
            /\ completed[t] => completed'[t]
            /\ completed'[t] => started'[t]
       /\ (op' = "acquire" /\ opExc' = "hook_error") => started'[opBatch'[1]]
       /\ (op' = "release" /\ opExc' = "hook_error") => completed'[opBatch'[1]]
       /\ (op' = "release" /\ completed[opBatch'[1]]) =>
               /\ opExc' = "RuntimeError"
               /\ hooks' = hooks]_vars

\* a release whose _release raised has left the Transaction completed
C29_Witness ==
    /\ op = "release" /\ opExc = "hook_error"
    /\ started[opBatch[1]] /\ completed[opBatch[1]]

\* C28 as claimed: when an insert reports its row as inserted, every cursor
\* opened for an INSERT has been closed exactly once, with RETURNING (whatever
\* the returned row holds) and without.
C28_Claimed ==
    (op = "insert_now" /\ opExc = "none") =>
        \A i \in DOMAIN cursors :
            cursors[i].kind = "INSERT" => cursors[i].closes = 1

\* C26 as claimed: when run_update_query returns, every row whose UPDATE it
\* executed has previous values equal to its current values; and a value
\* stored afterwards into a row whose UPDATE was executed changes the current
\* values only, so the row differs from its previous values again.
C26_Claimed ==
    [][/\ (op' = "run_update_query" /\ opExc' = "none") =>
            \A r \in Range(opBatch') :
                Call("execute", "UPDATE", r) \in Range(tcalls') =>
                    rows'[r].previous = rows'[r].values
       /\ (/\ op' = "store_column_value"
           /\ rows[opBatch'[1]].aliased
           /\ rows'[opBatch'[1]].values # rows[opBatch'[1]].values) =>
               /\ rows'[opBatch'[1]].previous = rows[opBatch'[1]].previous
               /\ rows'[opBatch'[1]].values # rows'[opBatch'[1]].previous]_vars

\* C27 as claimed: no step clears the deleted flag or the existed flag of a
\* row, and an add of a deleted row finds existed set (so it goes to
\* update_now) and raises.
C27_Claimed ==
    [][/\ \A r \in Rows :
            /\ rows[r].deleted => rows'[r].deleted
            /\ rows[r].existed => rows'[r].existed
       /\ (op' = "add" /\ rows[opBatch'[1]].deleted) =>
               /\ rows[opBatch'[1]].existed
               /\ opExc' = "RuntimeError"]_vars

\* C27: no step clears the deleted flag or the existed flag of a row, and an
\* add of a deleted row raises RuntimeError, issues no statement and leaves
\* every row as it was, whichever of the two paths the existed flag sends it to.
C27_FlagsMonotonic ==
    [][/\ \A r \in Rows :
            /\ rows[r].deleted => rows'[r].deleted
            /\ rows[r].existed => rows'[r].existed
       /\ (op' = "add" /\ rows[opBatch'[1]].deleted) =>
               /\ opExc' = "RuntimeError"
               /\ tcalls' = <<>>
               /\ rows' = rows]_vars

\* an add of a row that was inserted and then deleted has raised
C27_Witness ==
    /\ op = "add" /\ opExc = "RuntimeError"
    /\ rows[opBatch[1]].deleted /\ rows[opBatch[1]].existed

\* the rows of a catalog that carry index name n, in catalog order
RowsNamed(c, n) == SelectSeq(c, LAMBDA r : r.INDEX_NAME = n)

\* C23 as claimed: the MySQL transform yields exactly one Index for every
\* index name of the catalog rows, in whatever order they arrive; its columns
\* are those of all the rows of that name, in catalog order, and its unique
\* flag is the negation of the NON_UNIQUE of rows of that name.
C23_Claimed ==
    (op = "transform_rows_to_indexes" /\ dialect = "mysql") =>
        LET names == {catalog[i].INDEX_NAME : i \in DOMAIN catalog}
        IN  /\ Len(indexes.out) = Cardinality(names)
            /\ \A n \in names :
                   \E j \in DOMAIN indexes.out :
                       LET g == RowsNamed(catalog, n)
                           x == indexes.out[j]
                       IN  /\ x.name = n
                           /\ x.columns = [k \in DOMAIN g |-> g[k].COLUMN_NAME]
                           /\ \E k \in DOMAIN g : x.unique = (g[k].NON_UNIQUE = 0)

\* a text that is a CREATE INDEX statement with a column list
WellFormed(text) ==
    /\ text # <<>> /\ text[1] = "CREATE"
    /\ \E i, j \in DOMAIN text : i < j /\ text[i] = "(" /\ text[j] = ")"
\* the column list of such a text
ColumnList(text) ==
    LET open == CHOOSE i \in DOMAIN text : text[i] = "("
    IN  SelectSeq(SubSeq(text, open + 1, Len(text) - 1), LAMBDA t : t # ",")

\* C24 as claimed: the sqlite3 transform does not fail; it yields an Index,
\* with the columns of the column list, for every row whose sql is a
\* CREATE INDEX statement, and nothing for a row whose sql is NULL or
\* malformed.
C24_Claimed ==
    (op = "transform_rows_to_indexes" /\ dialect = "sqlite3") =>
        LET good == SelectSeq(catalog, LAMBDA r : ~r.sql.null /\ WellFormed(r.sql.text))
        IN  /\ indexes.exc = "none"
            /\ Len(indexes.out) = Len(good)
            /\ \A i \in DOMAIN good :
                   /\ indexes.out[i].name = good[i].name
                   /\ indexes.out[i].columns = ColumnList(good[i].sql.text)

====
